---- MODULE Spec2Model ----
(***************************************************************************)
(* A model of the AI Assistant desktop utility: the credential rotation of *)
(* ConfigManager, the quota-retry loop of GeminiIntegration, and the       *)
(* hotkey / capture-queue orchestration of AIAssistant.                    *)
(*                                                                         *)
(* Spec     one run of the application under a configuration read at       *)
(*          startup: trigger handlers, capture threads, analyze workers.   *)
(* LiveSpec Spec with every thread scheduled and every remote call         *)
(*          returning or raising (weak fairness of the worker steps).      *)
(* CfgSpec  the ConfigManager credential API and the settings window,      *)
(*          driven call by call.                                           *)
(***************************************************************************)
EXTENDS Integers, Sequences, FiniteSets, TLC

\* ------------------------------------------------------------ bounds
MaxKeys == 2
MaxRequests == 2
MaxImages == 2
MaxListLen == 3

\* ------------------------------------------------------------ values
KeyNames == <<"k1", "k2", "k3", "k4", "k5">>
Keys == {KeyNames[i] : i \in 1..MaxKeys}
\* self.current_api_key = None / self.client = None
None == "None"
\* get_api_key() returns '' when no key is configured
EmptyKey == ""

SeqsUpTo(S, n) == UNION {[1..k -> S] : k \in 0..n}
KeyLists == SeqsUpTo(Keys, MaxKeys)

Requests == 1..MaxRequests
ImageIds == 1..MaxImages

\* Texts are sequences of string fragments, so that a prefix can be put in
\* front of an error message.
NotConfiguredText == <<"Gemini client not initialized. Please set API key.">>
ErrorPrefix == <<"Error analyzing screenshot: ">>
ResponseTexts == {<<"answer">>}

\* Error messages of the remote call, character by character.
MsgRateLimitUpper == <<"R","A","T","E"," ","L","I","M","I","T">>
MsgInvalidArgument == <<"i","n","v","a","l","i","d"," ","a","r","g">>
MsgRateHyphenLimit == <<"r","a","t","e","-","l","i","m","i","t">>
ErrorMessages == {MsgRateLimitUpper, MsgInvalidArgument, MsgRateHyphenLimit}

\* ------------------------------------------------------------ state
VARIABLES
    \* ConfigManager.config
    api_keys,            \* gemini.api_keys
    current_key_index,   \* gemini.current_key_index
    auto_rotate,         \* gemini.auto_rotate_on_quota_error
    auto_paste,          \* auto_paste.enabled
    config_file,         \* the configuration last written to config.json
    \* SettingsWindow
    settings,            \* [open, has_temp, temp_keys]
    \* GeminiIntegration
    client_key,          \* the key self.client is bound to (current_api_key)
    \* AIAssistant
    is_enabled,
    is_processing,
    image_queue,
    req,                 \* the analyze worker threads (_process_screenshot)
    capturing,           \* the capture threads (_queue_screenshot) in flight
    n_img,               \* screenshots queued so far in this run
    \* SystemTray, MainWindow, HotkeyListener
    tray_enabled,
    mw_enabled,
    hotkey_listener,     \* [registered_hotkeys, hooks, is_enabled]
    os_rejects,          \* the hotkey strings keyboard.add_hotkey rejects
    \* observation
    analysed,            \* per queued image: the analysis requests that took it
    event,               \* the outcome of the last trigger handler
    call                 \* the last ConfigManager call and what it returned

cfgvars == <<api_keys, current_key_index, auto_rotate, auto_paste, config_file>>
togglevars == <<is_enabled, tray_enabled, mw_enabled, hotkey_listener, os_rejects>>
queuevars == <<image_queue, capturing, n_img, analysed>>
vars == <<api_keys, current_key_index, auto_rotate, auto_paste, config_file, settings,
          client_key, is_enabled, is_processing, image_queue, req, capturing,
          n_img, tray_enabled, mw_enabled, hotkey_listener, os_rejects,
          analysed, event, call>>


\* ------------------------------------------------------------ ConfigManager
\* Python lists are indexed from 0, TLA+ sequences from 1.
At(keys, index) == keys[index + 1]

InList(k, keys) == \E i \in 1..Len(keys) : keys[i] = k

RemoveTail(keys, k) == SubSeq(keys, 1, Len(keys) - 1)

\* list.remove(x): drops the first occurrence of x
RemoveFirst(keys, k) ==
    LET p == CHOOSE i \in 1..Len(keys) : keys[i] = k /\ \A j \in 1..(i - 1) : keys[j] # k
    IN  [i \in 1..(Len(keys) - 1) |-> IF i < p THEN keys[i] ELSE keys[i + 1]]

\* get_api_key: the key at the cursor; an out-of-range cursor is reset to 0
GetApiKey(keys, index) ==
    IF keys = <<>> THEN [ret |-> EmptyKey, index |-> index]
    ELSE IF index >= Len(keys) THEN [ret |-> At(keys, 0), index |-> 0]
    ELSE [ret |-> At(keys, index), index |-> index]

AddApiKeyAtHead(keys, k) ==
    IF k # EmptyKey /\ ~InList(k, keys) THEN <<k>> \o keys ELSE keys

\* add_api_key: append unless empty or already present
AddApiKeyList(keys, k) ==
    IF k # EmptyKey /\ ~InList(k, keys) THEN Append(keys, k) ELSE keys

\* remove_api_key: the list and the cursor afterwards
RemoveApiKeyResult(keys, index, k) ==
    IF InList(k, keys)
    THEN LET rest == RemoveFirst(keys, k)
         IN  [keys |-> rest, index |-> IF index >= Len(rest) THEN 0 ELSE index]
    ELSE [keys |-> keys, index |-> index]

NextIndexSame(keys, index) == index

\* next_index = (current_index + 1) % len(keys)
NextIndex(keys, index) == (index + 1) % Len(keys)

RotateReturnsEmptyWhenShort(keys, index) ==
    IF Len(keys) <= 1 THEN [ret |-> EmptyKey, index |-> index]
    ELSE [ret |-> At(keys, NextIndex(keys, index)), index |-> NextIndex(keys, index)]

\* rotate_to_next_key: the key returned and the cursor afterwards
RotateToNextKey(keys, index) ==
    IF Len(keys) <= 1 THEN GetApiKey(keys, index)
    ELSE [ret |-> At(keys, NextIndex(keys, index)), index |-> NextIndex(keys, index)]

\* self.config, the in-memory configuration
Config ==
    [api_keys |-> api_keys, current_key_index |-> current_key_index,
     auto_rotate |-> auto_rotate, auto_paste |-> auto_paste]

SaveNever(saves, file) == file

\* save(): json.dump of the whole configuration over the file. `saves` lists what
\* the save() calls of one operation wrote, in order; the last one stays.
Save(saves, file) == IF saves = <<>> THEN file ELSE saves[Len(saves)]

\* get_api_key: set() and with it save() are reached only on a cursor reset
GetApiKeySaves(config) ==
    IF config.api_keys # <<>> /\ config.current_key_index >= Len(config.api_keys)
    THEN <<[config EXCEPT !.current_key_index = 0]>>
    ELSE <<>>

\* add_api_key: one set() when the key is appended
AddApiKeySaves(config, k) ==
    IF k # EmptyKey /\ ~InList(k, config.api_keys)
    THEN <<[config EXCEPT !.api_keys = Append(@, k)]>>
    ELSE <<>>

\* remove_api_key: set() of the list, then set() of the cursor when it is reset
RemoveApiKeySaves(config, k) ==
    IF InList(k, config.api_keys)
    THEN LET rest == RemoveFirst(config.api_keys, k)
             listed == [config EXCEPT !.api_keys = rest]
         IN  IF config.current_key_index >= Len(rest)
             THEN <<listed, [listed EXCEPT !.current_key_index = 0]>>
             ELSE <<listed>>
    ELSE <<>>

\* rotate_to_next_key: set() of the next cursor, or whatever get_api_key does
RotateToNextKeySaves(config) ==
    IF Len(config.api_keys) <= 1 THEN GetApiKeySaves(config)
    ELSE <<[config EXCEPT !.current_key_index =
                              (config.current_key_index + 1) % Len(config.api_keys)]>>

\* ------------------------------------------------------------ GeminiIntegration
UpperCase == <<"A","B","C","D","E","F","G","H","I","J","K","L","M",
               "N","O","P","Q","R","S","T","U","V","W","X","Y","Z">>
LowerCase == <<"a","b","c","d","e","f","g","h","i","j","k","l","m",
               "n","o","p","q","r","s","t","u","v","w","x","y","z">>

LowerCharIdentity(c) == c

\* str.lower() on one character
LowerChar(c) ==
    IF \E i \in 1..Len(UpperCase) : UpperCase[i] = c
    THEN LowerCase[CHOOSE i \in 1..Len(UpperCase) : UpperCase[i] = c]
    ELSE c

Lower(s) == [i \in 1..Len(s) |-> LowerChar(s[i])]

\* `indicator in error_str`
Contains(s, t) ==
    \E i \in 0..(Len(s) - Len(t)) : \A j \in 1..Len(t) : s[i + j] = t[j]

quota_indicators ==
    << <<"q","u","o","t","a">>,
       <<"r","a","t","e"," ","l","i","m","i","t">>,
       <<"r","e","s","o","u","r","c","e"," ","e","x","h","a","u","s","t","e","d">>,
       <<"4","2","9">>,
       <<"t","o","o"," ","m","a","n","y"," ","r","e","q","u","e","s","t","s">>,
       <<"e","x","c","e","e","d","e","d">> >>

\* _is_quota_error
IsQuotaError(error) ==
    \E k \in 1..Len(quota_indicators) : Contains(Lower(error), quota_indicators[k])

\* f"Error analyzing screenshot: {str(e)}"
ErrorText(error) == ErrorPrefix \o error

RetryAlways(retry_count) == TRUE

\* retry_count < len(self.config.get_all_api_keys())
RetryAllowed(retry_count) == retry_count < Len(api_keys)

RotationAllowsIgnoringFlag == Len(api_keys) > 1

\* _try_rotate_key, up to rotate_to_next_key: auto-rotation on and a second key
RotationAllows == auto_rotate /\ Len(api_keys) > 1

\* ------------------------------------------------------------ HotkeyListener
\* The two configured hotkeys, named by what they trigger, and their callbacks.
Hotkeys == {"hotkey", "capture_hotkey"}
Unbound == "unbound"
CallbackOf(h) == IF h = "hotkey" THEN "on_hotkey_pressed" ELSE "on_capture_hotkey_pressed"

\* HotkeyListener.__init__
NewListener ==
    [registered_hotkeys |-> [h \in Hotkeys |-> Unbound],
     hooks |-> [h \in Hotkeys |-> 0],
     is_enabled |-> FALSE]

RegisterWithoutRemove(L, h, cb, rejects) ==
    IF h \in rejects THEN [listener |-> L, ok |-> FALSE]
    ELSE [listener |-> [L EXCEPT !.hooks[h] = @ + 1,
                                 !.registered_hotkeys[h] = cb,
                                 !.is_enabled = TRUE],
          ok |-> TRUE]

\* register(hotkey, callback): keyboard.remove_hotkey raises when the hotkey has
\* no hook, keyboard.add_hotkey raises when it rejects the hotkey; either way
\* register returns False and keeps what it had done before the exception.
Register(L, h, cb, rejects) ==
    LET bound == L.registered_hotkeys[h] # Unbound
        removed == IF bound THEN [L EXCEPT !.hooks[h] = @ - 1] ELSE L
    IN  IF bound /\ L.hooks[h] = 0 THEN [listener |-> L, ok |-> FALSE]
        ELSE IF h \in rejects THEN [listener |-> removed, ok |-> FALSE]
        ELSE [listener |-> [removed EXCEPT !.hooks[h] = @ + 1,
                                           !.registered_hotkeys[h] = cb,
                                           !.is_enabled = TRUE],
              ok |-> TRUE]

\* disable(): remove the hook of every registered hotkey (a failing removal is
\* logged and skipped), keep the bindings
Disable(L) ==
    [L EXCEPT !.hooks = [h \in Hotkeys |->
                            IF L.registered_hotkeys[h] # Unbound /\ L.hooks[h] > 0
                            THEN L.hooks[h] - 1 ELSE L.hooks[h]],
              !.is_enabled = FALSE]

EnableUnguarded(L, rejects) ==
    LET again == {h \in Hotkeys : L.registered_hotkeys[h] # Unbound /\ h \notin rejects}
    IN  [registered_hotkeys |-> [h \in Hotkeys |->
                                    IF h \in again THEN L.registered_hotkeys[h] ELSE Unbound],
         hooks |-> [h \in Hotkeys |-> IF h \in again THEN L.hooks[h] + 1 ELSE L.hooks[h]],
         is_enabled |-> (again # {})]

\* enable(): clear the bindings and register each of them again
Enable(L, rejects) ==
    IF \A h \in Hotkeys : L.registered_hotkeys[h] = Unbound THEN L
    ELSE IF L.is_enabled THEN L
    ELSE LET again == {h \in Hotkeys : L.registered_hotkeys[h] # Unbound /\ h \notin rejects}
         IN  [registered_hotkeys |-> [h \in Hotkeys |->
                                         IF h \in again THEN L.registered_hotkeys[h] ELSE Unbound],
              hooks |-> [h \in Hotkeys |-> IF h \in again THEN L.hooks[h] + 1 ELSE L.hooks[h]],
              is_enabled |-> (again # {})]

\* AIAssistant._register_hotkeys: the main hotkey, then the capture hotkey
RegisterHotkeys(rejects) ==
    LET first == Register(NewListener, "hotkey", CallbackOf("hotkey"), rejects).listener
    IN  Register(first, "capture_hotkey", CallbackOf("capture_hotkey"), rejects).listener

\* ------------------------------------------------------------ AIAssistant
\* One analyze worker thread: where it is in _process_screenshot and in
\* analyze_screenshot_sync, and its local variables.
\*   start    thread started, _process_screenshot not yet entered
\*   clear    images_to_process = list(self.image_queue) done, clear() not yet
\*   call     about to call generate_content
\*   handle   generate_content raised err
\*   rebind   rotate_to_next_key returned next_key
\*   deliver  analyze_screenshot_sync returned response
\*   finally  delivery or error notification done
\*   done     thread ended
NoImages == [kind |-> "none", items |-> <<>>]

SinkCallLogged(op, text, ok) ==
    [op |-> op, text |-> IF text = <<>> THEN text ELSE SubSeq(text, 1, 1), ok |-> ok]

\* One call of the delivery collaborator or of the tray notification: paste_text(text),
\* copy_to_clipboard(text) or show_notification, and whether it succeeded.
SinkCall(op, text, ok) == [op |-> op, text |-> text, ok |-> ok]
IdleReq ==
    [pc |-> "idle", images |-> NoImages, retry_count |-> 0, attempts |-> <<>>,
     err |-> <<>>, next_key |-> EmptyKey, response |-> <<>>, sink |-> <<>>,
     init_failed |-> FALSE]
DoneReq == [IdleReq EXCEPT !.pc = "done"]

\* The thread started next: worker threads are numbered in the order they start.
Unstarted == {r \in Requests : req[r].pc = "idle"}
NextReq == CHOOSE r \in Unstarted : \A q \in Unstarted : r <= q

Started(r) == req[r].pc \notin {"idle", "done"}
\* inside the body of _process_screenshot
Active(r) == req[r].pc \in {"clear", "call", "handle", "rebind", "deliver", "finally"}

NoCall == [op |-> "none"]

StartupConfigs ==
    {c \in [api_keys : KeyLists, current_key_index : 0..(MaxKeys - 1),
            auto_rotate : BOOLEAN, auto_paste : BOOLEAN] :
        IF c.api_keys = <<>> THEN c.current_key_index = 0
        ELSE c.current_key_index < Len(c.api_keys)}

\* AIAssistant.__init__ : the configuration as loaded, the client bound to
\* get_api_key() (GeminiIntegration.__init__), both hotkeys registered.
Init ==
    /\ \E c \in StartupConfigs :
          /\ api_keys = c.api_keys
          /\ current_key_index = c.current_key_index
          /\ auto_rotate = c.auto_rotate
          /\ auto_paste = c.auto_paste
          /\ config_file = c
          /\ client_key = IF c.api_keys = <<>> THEN None
                          ELSE GetApiKey(c.api_keys, c.current_key_index).ret
    /\ settings = [open |-> FALSE, has_temp |-> FALSE, temp_keys |-> <<>>]
    /\ is_enabled = TRUE
    /\ is_processing = FALSE
    /\ image_queue = <<>>
    /\ req = [r \in Requests |-> IdleReq]
    /\ capturing = 0
    /\ n_img = 0
    /\ tray_enabled = TRUE
    /\ mw_enabled = TRUE
    /\ os_rejects = {}
    /\ hotkey_listener = RegisterHotkeys(os_rejects)
    /\ analysed = [i \in ImageIds |-> 0]
    /\ event = "none"
    /\ call = NoCall

\* on_toggle(enabled)
OnToggle(enabled) ==
    /\ is_enabled' = enabled
    /\ hotkey_listener' = IF enabled THEN Enable(hotkey_listener, os_rejects)
                          ELSE Disable(hotkey_listener)
    /\ mw_enabled' = enabled
    /\ event' = "none"
    /\ UNCHANGED <<cfgvars, settings, client_key, is_processing, req, queuevars,
                   os_rejects, call>>

\* SystemTray._handle_toggle
HandleToggle ==
    /\ tray_enabled' = ~tray_enabled
    /\ OnToggle(~tray_enabled)

\* MainWindow._toggle_enabled
ToggleEnabled ==
    /\ OnToggle(~mw_enabled)
    /\ UNCHANGED tray_enabled

Spawn(r) == req' = [req EXCEPT ![r].pc = "start"]

HotkeyGuardDisabledOnly == ~is_enabled

\* on_hotkey_pressed returns early when disabled or already processing
HotkeyGuard == ~is_enabled \/ is_processing

\* on_hotkey_pressed
OnHotkeyPressed ==
    /\ IF ~is_enabled THEN event' = "hotkey_disabled" /\ UNCHANGED req
       ELSE IF HotkeyGuard THEN event' = "hotkey_ignored" /\ UNCHANGED req
       ELSE Unstarted # {} /\ Spawn(NextReq) /\ event' = "hotkey_accepted"
    /\ UNCHANGED <<cfgvars, settings, client_key, is_processing, queuevars,
                   togglevars, call>>

\* on_manual_capture: the "Capture" button of the main window
OnManualCapture ==
    /\ Unstarted # {}
    /\ Spawn(NextReq)
    /\ event' = "manual_capture"
    /\ UNCHANGED <<cfgvars, settings, client_key, is_processing, queuevars,
                   togglevars, call>>

CaptureGuardNever == FALSE

\* on_capture_hotkey_pressed returns early when disabled
CaptureGuard == ~is_enabled

\* on_capture_hotkey_pressed
OnCaptureHotkeyPressed ==
    /\ IF CaptureGuard THEN event' = "capture_disabled" /\ UNCHANGED capturing
       ELSE /\ n_img + capturing < MaxImages
            /\ capturing' = capturing + 1
            /\ event' = "capture_accepted"
    /\ UNCHANGED <<cfgvars, settings, client_key, is_processing, req, image_queue,
                   n_img, analysed, togglevars, call>>

EnqueueAtHead(queue, image) == <<image>> \o queue

\* self.image_queue.append(image)
Enqueue(queue, image) == Append(queue, image)

\* _queue_screenshot: capture_full_screen() returns an image, which is appended,
\* or raises, which is logged
QueueScreenshot ==
    /\ capturing > 0
    /\ capturing' = capturing - 1
    /\ \/ /\ n_img' = n_img + 1
          /\ image_queue' = Enqueue(image_queue, n_img + 1)
       \/ UNCHANGED <<n_img, image_queue>>
    /\ event' = "none"
    /\ UNCHANGED <<cfgvars, settings, client_key, is_processing, req, analysed,
                   togglevars, call>>

WorkerFrame == UNCHANGED <<api_keys, auto_rotate, auto_paste, settings, capturing,
                           n_img, togglevars, call>>

SnapshotNewest(queue) == [kind |-> "list", items |-> <<queue[Len(queue)]>>]

\* images_to_process = list(self.image_queue)
Snapshot(queue) == [kind |-> "list", items |-> queue]

\* images_to_process = self.screenshot.capture_full_screen(): the image itself
FreshCapture == [kind |-> "image", items |-> <<0>>]

CaptureFailedGoesOn(q) == [q EXCEPT !.pc = "call"]

\* capture_full_screen() raised: the except branch shows the error notification
CaptureFailed(q) ==
    [q EXCEPT !.pc = "finally", !.sink = <<SinkCall("error_notification", <<>>, TRUE)>>]

\* _process_screenshot, from its first statement to the snapshot of the queue
\* or the fresh capture
ProcessStart(r) ==
    /\ req[r].pc = "start"
    /\ is_processing' = TRUE
    /\ IF image_queue # <<>>
       THEN /\ req' = [req EXCEPT ![r].pc = "clear",
                                  ![r].images = Snapshot(image_queue)]
            /\ analysed' = [i \in ImageIds |->
                               IF \E j \in 1..Len(image_queue) : image_queue[j] = i
                               THEN analysed[i] + 1 ELSE analysed[i]]
       ELSE /\ \/ req' = [req EXCEPT ![r].pc = "call",
                                     ![r].images = FreshCapture]
               \/ req' = [req EXCEPT ![r] = CaptureFailed(@)]
            /\ UNCHANGED analysed
    /\ event' = "none"
    /\ UNCHANGED <<current_key_index, config_file, client_key, image_queue>>
    /\ WorkerFrame

\* self.image_queue.clear()
ProcessClear(r) ==
    /\ req[r].pc = "clear"
    /\ image_queue' = <<>>
    /\ req' = [req EXCEPT ![r].pc = "call"]
    /\ event' = "none"
    /\ UNCHANGED <<current_key_index, config_file, client_key, is_processing, analysed>>
    /\ WorkerFrame

Returned(q, text) ==
    [q EXCEPT !.pc = "deliver", !.response = text, !.images = NoImages, !.err = <<>>,
              !.next_key = EmptyKey]

ClientReadyAlways == TRUE

\* `if not self.client`: a client is bound
ClientReady == client_key # None

ResultTextAsError(t) == ErrorPrefix \o t

\* result_text = response.text; return result_text
ResultText(t) == t

\* analyze_screenshot_sync up to the outcome of generate_content
Call(r) ==
    /\ req[r].pc = "call"
    /\ IF ~ClientReady
       THEN req' = [req EXCEPT ![r] = Returned(@, NotConfiguredText)]
       ELSE LET tried == [req[r] EXCEPT !.attempts = Append(@, client_key),
                                        !.images = NoImages]
            IN  \/ \E t \in ResponseTexts :
                      req' = [req EXCEPT ![r] = Returned(tried, ResultText(t))]
                \/ \E e \in ErrorMessages :
                      req' = [req EXCEPT ![r] = [tried EXCEPT !.pc = "handle", !.err = e]]
    /\ event' = "none"
    /\ UNCHANGED <<current_key_index, config_file, client_key, is_processing, image_queue, analysed>>
    /\ WorkerFrame

\* the except branch of analyze_screenshot_sync, up to rotate_to_next_key
Handle(r) ==
    /\ req[r].pc = "handle"
    /\ IF IsQuotaError(req[r].err) /\ RetryAllowed(req[r].retry_count) /\ RotationAllows
       THEN LET rot == RotateToNextKey(api_keys, current_key_index)
            IN  /\ current_key_index' = rot.index
                /\ config_file' = Save(RotateToNextKeySaves(Config), config_file)
                /\ req' = [req EXCEPT ![r].pc = "rebind", ![r].next_key = rot.ret]
       ELSE /\ req' = [req EXCEPT ![r] = Returned(@, ErrorText(@.err))]
            /\ UNCHANGED <<current_key_index, config_file>>
    /\ event' = "none"
    /\ UNCHANGED <<client_key, is_processing, image_queue, analysed>>
    /\ WorkerFrame

\* _try_rotate_key after rotate_to_next_key, and the recursive call
Rebind(r) ==
    /\ req[r].pc = "rebind"
    /\ IF req[r].next_key = client_key
       THEN /\ req' = [req EXCEPT ![r] = Returned(@, ErrorText(@.err))]
            /\ UNCHANGED client_key
       ELSE \/ /\ client_key' = req[r].next_key
               /\ req' = [req EXCEPT ![r].pc = "call", ![r].retry_count = @ + 1,
                                      ![r].err = <<>>, ![r].next_key = EmptyKey]
            \/ /\ req' = [req EXCEPT ![r] = Returned([@ EXCEPT !.init_failed = TRUE],
                                                     ErrorText(@.err))]
               /\ UNCHANGED client_key
    /\ event' = "none"
    /\ UNCHANGED <<current_key_index, config_file, is_processing, image_queue, analysed>>
    /\ WorkerFrame

\* the delivery: paste, with copy as the fallback, or copy alone
DeliveryAlwaysCopies(text, paste_ok, copy_ok) ==
    IF auto_paste
    THEN <<SinkCall("paste", text, paste_ok), SinkCall("copy", text, copy_ok)>>
    ELSE <<SinkCall("copy", text, copy_ok)>>

Delivery(text, paste_ok, copy_ok) ==
    IF auto_paste
    THEN (IF paste_ok THEN <<SinkCall("paste", text, TRUE)>>
          ELSE <<SinkCall("paste", text, FALSE), SinkCall("copy", text, copy_ok)>>)
    ELSE <<SinkCall("copy", text, copy_ok)>>

Deliver(r) ==
    /\ req[r].pc = "deliver"
    /\ \E paste_ok \in BOOLEAN, copy_ok \in BOOLEAN :
          req' = [req EXCEPT ![r] = [DoneReq EXCEPT !.pc = "finally",
                                                    !.response = req[r].response,
                                                    !.sink = Delivery(req[r].response,
                                                                      paste_ok, copy_ok)]]
    /\ event' = "none"
    /\ UNCHANGED <<current_key_index, config_file, client_key, is_processing, image_queue, analysed>>
    /\ WorkerFrame

KeepProcessing == is_processing

\* finally: self.is_processing = False
ProcessingAfterFinally == FALSE

Finally(r) ==
    /\ req[r].pc = "finally"
    /\ is_processing' = ProcessingAfterFinally
    /\ req' = [req EXCEPT ![r] = DoneReq]
    /\ event' = "none"
    /\ UNCHANGED <<current_key_index, config_file, client_key, image_queue, analysed>>
    /\ WorkerFrame

\* The request path: the steps of a worker that found the capture queue empty.
RequestStep(r) ==
    \/ ProcessStart(r)
    \/ Call(r)
    \/ Handle(r)
    \/ Rebind(r)
    \/ Deliver(r)
    \/ Finally(r)

\* One run of the application under any startup configuration, triggered by the
\* main hotkey and by the main window's capture button.
Next ==
    \/ OnHotkeyPressed
    \/ OnManualCapture
    \/ \E r \in Requests : RequestStep(r)

Spec == Init /\ [][Next]_vars

\* Every started thread runs, and a remote call returns or raises.
LiveSpec == Spec /\ \A r \in Requests : WF_vars(RequestStep(r))

\* ConfigManager.get_defaults: the configuration of a first start
DefaultInit ==
    /\ Init
    /\ api_keys = <<>>
    /\ current_key_index = 0
    /\ auto_rotate = TRUE
    /\ auto_paste = TRUE

\* With no key configured no remote call is made: Handle and Rebind have no part.
QueueStep(r) ==
    \/ ProcessStart(r)
    \/ ProcessClear(r)
    \/ Call(r)
    \/ Deliver(r)
    \/ Finally(r)

\* One run of the application from the default configuration, with every
\* trigger: both hotkeys, the capture button, the two enable/disable toggles.
QueueNext ==
    \/ OnHotkeyPressed
    \/ OnManualCapture
    \/ OnCaptureHotkeyPressed
    \/ QueueScreenshot
    \/ HandleToggle
    \/ ToggleEnabled
    \/ \E r \in Requests : QueueStep(r)

QueueSpec == DefaultInit /\ [][QueueNext]_vars

\* ------------------------------------------------------------ CfgSpec
\* The ConfigManager credential API called directly, and the settings window.
\* Nothing of the running application changes in CfgSpec.
AppFrame == UNCHANGED <<client_key, is_processing, req, queuevars, togglevars, event>>

\* The calls of a run of rotate_to_next_key calls in a row, and the cursor the
\* run started from; any other call ends the run.
RunOf(index) ==
    IF call.op = "rotate_to_next_key" /\ call.run < Len(api_keys)
    THEN [n |-> call.run + 1, from |-> call.from]
    ELSE [n |-> 1, from |-> index]

CallGetApiKey ==
    /\ LET got == GetApiKey(api_keys, current_key_index)
       IN  /\ current_key_index' = got.index
           /\ call' = [op |-> "get_api_key", ret |-> got.ret]
    /\ config_file' = Save(GetApiKeySaves(Config), config_file)
    /\ UNCHANGED <<api_keys, auto_rotate, auto_paste, settings>>
    /\ AppFrame

CallAddApiKey(k) ==
    /\ Len(api_keys) < MaxListLen
    /\ api_keys' = AddApiKeyList(api_keys, k)
    /\ config_file' = Save(AddApiKeySaves(Config, k), config_file)
    /\ call' = [op |-> "add_api_key", arg |-> k, keys |-> api_keys,
                index |-> current_key_index]
    /\ UNCHANGED <<current_key_index, auto_rotate, auto_paste, settings>>
    /\ AppFrame

CallRemoveApiKey(k) ==
    /\ LET res == RemoveApiKeyResult(api_keys, current_key_index, k)
       IN  /\ api_keys' = res.keys
           /\ current_key_index' = res.index
    /\ config_file' = Save(RemoveApiKeySaves(Config, k), config_file)
    /\ call' = [op |-> "remove_api_key", arg |-> k, keys |-> api_keys,
                index |-> current_key_index]
    /\ UNCHANGED <<auto_rotate, auto_paste, settings>>
    /\ AppFrame

CallRotateToNextKey ==
    /\ LET rot == RotateToNextKey(api_keys, current_key_index)
           run == RunOf(current_key_index)
       IN  /\ current_key_index' = rot.index
           /\ call' = [op |-> "rotate_to_next_key", ret |-> rot.ret,
                       index |-> current_key_index, run |-> run.n, from |-> run.from]
    /\ config_file' = Save(RotateToNextKeySaves(Config), config_file)
    /\ UNCHANGED <<api_keys, auto_rotate, auto_paste, settings>>
    /\ AppFrame

ClosedSettings == [open |-> FALSE, has_temp |-> FALSE, temp_keys |-> <<>>]

\* on_settings: a new SettingsWindow, which has no temp_keys attribute yet
OpenSettings ==
    /\ ~settings.open
    /\ settings' = [ClosedSettings EXCEPT !.open = TRUE]
    /\ call' = NoCall
    /\ UNCHANGED cfgvars
    /\ AppFrame

\* temp_keys, created from the configured list on first use
TempKeys == IF settings.has_temp THEN settings.temp_keys ELSE api_keys

\* _add_key.save_key: refuses an empty key and a key of the configured list
AddKey(k) ==
    /\ settings.open
    /\ Len(TempKeys) < MaxListLen
    /\ IF k = EmptyKey \/ InList(k, api_keys) THEN UNCHANGED settings
       ELSE settings' = [settings EXCEPT !.has_temp = TRUE,
                                         !.temp_keys = Append(TempKeys, k)]
    /\ call' = NoCall
    /\ UNCHANGED cfgvars
    /\ AppFrame

\* _remove_key on the selected row of the list box
RemoveKey(index) ==
    /\ settings.open
    /\ index < Len(TempKeys)
    /\ settings' = [settings EXCEPT !.has_temp = TRUE,
                       !.temp_keys = [i \in 1..(Len(TempKeys) - 1) |->
                                         IF i <= index THEN TempKeys[i] ELSE TempKeys[i + 1]]]
    /\ call' = NoCall
    /\ UNCHANGED cfgvars
    /\ AppFrame

\* _save_settings: set() of the edited key list, then of each other setting
SaveSettingsSaves(config, rotate, paste) ==
    LET listed == [config EXCEPT !.api_keys = TempKeys]
        rotated == [listed EXCEPT !.auto_rotate = rotate]
    IN  (IF settings.has_temp THEN <<listed>> ELSE <<>>)
        \o <<rotated, [rotated EXCEPT !.auto_paste = paste]>>

\* _save_settings: the key list is replaced when it was edited, the check boxes
\* are stored, the window closes
SaveSettings ==
    /\ settings.open
    /\ api_keys' = TempKeys
    /\ \E rotate \in BOOLEAN, paste \in BOOLEAN :
          /\ auto_rotate' = rotate
          /\ auto_paste' = paste
          /\ config_file' = Save(SaveSettingsSaves(Config, rotate, paste), config_file)
    /\ settings' = ClosedSettings
    /\ call' = [op |-> "save_settings"]
    /\ UNCHANGED current_key_index
    /\ AppFrame

\* _close_window: Cancel
CloseWindow ==
    /\ settings.open
    /\ settings' = ClosedSettings
    /\ call' = NoCall
    /\ UNCHANGED cfgvars
    /\ AppFrame

CfgNext ==
    \/ CallGetApiKey
    \/ \E k \in Keys \cup {EmptyKey} : CallAddApiKey(k)
    \/ \E k \in Keys : CallRemoveApiKey(k)
    \/ CallRotateToNextKey
    \/ OpenSettings
    \/ \E k \in Keys \cup {EmptyKey} : AddKey(k)
    \/ \E index \in 0..(MaxListLen - 1) : RemoveKey(index)
    \/ SaveSettings
    \/ CloseWindow

Distinct(seq) == \A i, j \in 1..Len(seq) : i # j => seq[i] # seq[j]

\* A key list as add_api_key builds it, with the cursor in range.
CfgInit == Init /\ Distinct(api_keys)

CfgSpec == CfgInit /\ [][CfgNext]_vars

\* ------------------------------------------------------------ HkSpec
\* The HotkeyListener API called directly. Each call meets its own answers of
\* keyboard.add_hotkey: os_rejects holds the hotkeys it rejects during the call.
HkFrame == UNCHANGED <<cfgvars, settings, client_key, is_enabled, is_processing, req,
                       queuevars, tray_enabled, mw_enabled, event>>

Callbacks == {CallbackOf(h) : h \in Hotkeys}

\* The hotkeys whose keyboard.remove_hotkey raises in disable(): registered, no hook.
DisableWarnings(L) == {h \in Hotkeys : L.registered_hotkeys[h] # Unbound /\ L.hooks[h] = 0}

\* register(hotkey, callback)
CallRegister(h, cb) ==
    \E rejects \in SUBSET Hotkeys :
        LET res == Register(hotkey_listener, h, cb, rejects)
        IN  /\ hotkey_listener' = res.listener
            /\ os_rejects' = rejects
            /\ call' = [op |-> "register", hotkey |-> h, callback |-> cb, ok |-> res.ok,
                        before |-> hotkey_listener, prev |-> call.op]
            /\ HkFrame

\* enable()
CallEnable ==
    \E rejects \in SUBSET Hotkeys :
        /\ hotkey_listener' = Enable(hotkey_listener, rejects)
        /\ os_rejects' = rejects
        /\ call' = [op |-> "enable", before |-> hotkey_listener, prev |-> call.op]
        /\ HkFrame

\* disable()
CallDisable ==
    /\ hotkey_listener' = Disable(hotkey_listener)
    /\ call' = [op |-> "disable", before |-> hotkey_listener, prev |-> call.op,
                warnings |-> DisableWarnings(hotkey_listener)]
    /\ UNCHANGED os_rejects
    /\ HkFrame

HkNext ==
    \/ \E h \in Hotkeys, cb \in Callbacks : CallRegister(h, cb)
    \/ CallEnable
    \/ CallDisable

\* AIAssistant.__init__ on the default configuration, whatever keyboard.add_hotkey
\* answers to the two registrations of _register_hotkeys
HkInit ==
    /\ api_keys = <<>>
    /\ current_key_index = 0
    /\ auto_rotate = TRUE
    /\ auto_paste = TRUE
    /\ config_file = Config
    /\ client_key = None
    /\ settings = [open |-> FALSE, has_temp |-> FALSE, temp_keys |-> <<>>]
    /\ is_enabled = TRUE
    /\ is_processing = FALSE
    /\ image_queue = <<>>
    /\ req = [r \in Requests |-> IdleReq]
    /\ capturing = 0
    /\ n_img = 0
    /\ tray_enabled = TRUE
    /\ mw_enabled = TRUE
    /\ os_rejects \in SUBSET Hotkeys
    /\ hotkey_listener = RegisterHotkeys(os_rejects)
    /\ analysed = [i \in ImageIds |-> 0]
    /\ event = "none"
    /\ call = NoCall

HkSpec == HkInit /\ [][HkNext]_vars

\* ------------------------------------------------------------ claims
\* The sample messages that hold a quota indicator phrase in some letter case,
\* and those that hold none.
QuotaSamples == {MsgRateLimitUpper}
OtherSamples == {MsgInvalidArgument, MsgRateHyphenLimit}

AloneInRun(r) == \A q \in Requests \ {r} : req[q].pc = "idle"

\* analyze_screenshot_sync has returned the error text of a quota error
QuotaFailure(r) ==
    /\ req[r].pc = "deliver"
    /\ \E e \in QuotaSamples : req[r].response = ErrorText(e)

\* C1: a request that runs alone, with N >= 2 distinct keys and auto-rotation
\* on, never attempts a key twice, and when every attempt fails by quota it
\* returns the error text after exactly N attempts.
C1_ExactlyNDistinctAttempts ==
    \A r \in Requests :
        (/\ AloneInRun(r)
         /\ Len(api_keys) >= 2
         /\ Distinct(api_keys)
         /\ auto_rotate
         /\ ~req[r].init_failed)
        => /\ Distinct(req[r].attempts)
           /\ QuotaFailure(r) => Len(req[r].attempts) = Len(api_keys)

InFlight(r) == req[r].pc \in {"call", "handle", "rebind"}

\* C2: the retry counter of a request never exceeds the number of keys, a
\* request makes at most one attempt more than that, and every request that
\* is in analyze_screenshot_sync returns.
C2_RequestTerminates ==
    /\ [](\A r \in Requests :
            /\ req[r].retry_count <= Len(api_keys)
            /\ Len(req[r].attempts) <= Len(api_keys) + 1)
    /\ \A r \in Requests : InFlight(r) ~> (req[r].pc = "deliver")

\* a request that has retried as often as there are keys, and then returned
C2_Witness ==
    \E r \in Requests :
        /\ req[r].pc = "deliver"
        /\ Len(api_keys) >= 2
        /\ req[r].retry_count = Len(api_keys)

\* C3: at most one worker is inside _process_screenshot.
C3_AtMostOneActiveWorker == Cardinality({r \in Requests : Active(r)}) <= 1

Occurrences(i, seq) == Cardinality({j \in 1..Len(seq) : seq[j] = i})

\* C4: outside a drain (between the snapshot and the clear), every image that
\* was appended to the queue is either still queued or was taken by exactly
\* one analysis request.
C4_EveryImageAnalysedOnce ==
    (\A r \in Requests : req[r].pc # "clear")
    => \A i \in 1..n_img : Occurrences(i, image_queue) + analysed[i] = 1

\* C5: after every completed call the cursor is in range of a non-empty list.
C5_CursorInRange ==
    api_keys # <<>> => current_key_index \in 0..(Len(api_keys) - 1)

\* C6: with N >= 2 keys and the cursor in range, rotate_to_next_key moves the
\* cursor by one modulo N and returns the key there, and the N-th call in a
\* row brings the cursor and the current key back to where the row started.
C6_RotateAdvancesCyclically ==
    (/\ call.op = "rotate_to_next_key"
     /\ Len(api_keys) >= 2
     /\ call.index < Len(api_keys))
    => /\ current_key_index = (call.index + 1) % Len(api_keys)
       /\ call.ret = At(api_keys, current_key_index)
       /\ (call.run = Len(api_keys) /\ call.from < Len(api_keys))
          => /\ current_key_index = call.from
             /\ GetApiKey(api_keys, current_key_index).ret = At(api_keys, call.from)

\* N calls in a row have been made
C6_Witness ==
    /\ call.op = "rotate_to_next_key"
    /\ Len(api_keys) >= 2
    /\ call.index < Len(api_keys)
    /\ call.run = Len(api_keys)
    /\ call.from < Len(api_keys)

HotkeyEvents == {"hotkey_disabled", "hotkey_ignored", "hotkey_accepted"}

\* C7: a main-hotkey press while is_processing is true changes nothing: no
\* worker, no remote call, the queue and the flag as they were.
C7_PressWhileProcessingIsNoOp ==
    [][(event' \in HotkeyEvents /\ is_processing)
       => UNCHANGED <<cfgvars, settings, client_key, is_enabled, is_processing,
                      image_queue, req, capturing, n_img, tray_enabled, mw_enabled,
                      hotkey_listener, os_rejects, analysed, call>>]_vars

\* a press was ignored while a worker was running
C7_Witness ==
    /\ event = "hotkey_ignored"
    /\ is_processing
    /\ \E r \in Requests : Active(r)

\* C8: every worker that starts ends with is_processing false, and a press
\* of the main hotkey after a worker has ended, with the flag false, starts a
\* new worker.
C8_WorkerResetsProcessing ==
    /\ \A r \in Requests : Started(r) ~> (req[r].pc = "done" /\ ~is_processing)
    /\ [][(/\ event' \in HotkeyEvents
           /\ is_enabled
           /\ ~is_processing
           /\ Unstarted # {}
           /\ \E r \in Requests : req[r].pc = "done")
          => (event' = "hotkey_accepted" /\ req'[NextReq].pc = "start")]_vars

\* a worker has ended and the next press was accepted
C8_Witness ==
    /\ event = "hotkey_accepted"
    /\ ~is_processing
    /\ \E r, q \in Requests : req[r].pc = "done" /\ req[q].pc = "start"

\* C9: an error with no quota phrase ends the request at once with the error
\* text, no rotation and no further attempt; an error with a quota phrase is
\* treated as a quota failure, so it rotates whenever rotation is possible.
C9_OnlyQuotaErrorsRotate ==
    [][\A r \in Requests :
          (req[r].pc = "handle" /\ req'[r].pc # "handle")
          => IF req[r].err \in OtherSamples
             THEN /\ req'[r].pc = "deliver"
                  /\ req'[r].response = ErrorText(req[r].err)
                  /\ req'[r].attempts = req[r].attempts
                  /\ Len(req'[r].attempts) = req[r].retry_count + 1
                  /\ current_key_index' = current_key_index
                  /\ client_key' = client_key
             ELSE \/ req'[r].pc = "rebind"
                  \/ req[r].retry_count >= Len(api_keys)
                  \/ ~auto_rotate
                  \/ Len(api_keys) <= 1]_vars

\* a first attempt failed with "invalid arg" although rotation was possible
C9_Witness ==
    \E r \in Requests :
        /\ req[r].pc = "deliver"
        /\ req[r].response = ErrorText(MsgInvalidArgument)
        /\ Len(req[r].attempts) = 1
        /\ auto_rotate
        /\ Len(api_keys) >= 2

\* C10: a quota error with auto-rotation off, or with fewer than two keys,
\* ends the request after that one attempt with the error text; the cursor
\* and the bound key stay.
C10_NoRotationPossible ==
    [][\A r \in Requests :
          (/\ req[r].pc = "handle"
           /\ req'[r].pc # "handle"
           /\ req[r].err \in QuotaSamples
           /\ (~auto_rotate \/ Len(api_keys) < 2))
          => /\ req'[r].pc = "deliver"
             /\ req'[r].response = ErrorText(req[r].err)
             /\ Len(req'[r].attempts) = 1
             /\ current_key_index' = current_key_index
             /\ client_key' = client_key]_vars

\* a quota error with two keys configured and auto-rotation off
C10_Witness ==
    \E r \in Requests :
        /\ QuotaFailure(r)
        /\ ~auto_rotate
        /\ Len(api_keys) >= 2

\* C11: a remote call that succeeds, on the first attempt or after rotations,
\* makes analyze_screenshot_sync return the remote response text as it is, and
\* every request enters analyze_screenshot_sync with no retry and no attempt
\* counted, whatever earlier requests did.
C11_SuccessReturnsRemoteText ==
    [][\A r \in Requests :
          /\ (req[r].pc = "call" /\ ClientReady /\ req'[r].pc = "deliver")
             => /\ req'[r].response \in ResponseTexts
                /\ req'[r].retry_count = req[r].retry_count
          /\ (req[r].pc \in {"start", "clear"} /\ req'[r].pc = "call")
             => (req'[r].retry_count = 0 /\ req'[r].attempts = <<>>)]_vars

\* a request succeeded after a rotation, and a later request is about to make
\* its first call
C11_Witness ==
    \E r, q \in Requests :
        /\ r < q
        /\ req[r].pc = "deliver"
        /\ req[r].response \in ResponseTexts
        /\ req[r].retry_count >= 1
        /\ req[q].pc = "call"
        /\ req[q].retry_count = 0
        /\ req[q].attempts = <<>>

\* C12: with no key configured at startup no client is bound, no request makes
\* a remote call or rotates, and every request that returns returns the
\* not-configured text.
C12_NotConfigured ==
    api_keys = <<>>
    => /\ client_key = None
       /\ current_key_index = 0
       /\ \A r \in Requests :
             /\ req[r].attempts = <<>>
             /\ req[r].retry_count = 0
             /\ req[r].pc \notin {"handle", "rebind"}
             /\ req[r].pc = "deliver" => req[r].response = NotConfiguredText
             /\ req[r].pc = "finally" /\ req[r].response # <<>>
                => req[r].response = NotConfiguredText

\* a request has returned with no key configured
C12_Witness ==
    /\ api_keys = <<>>
    /\ \E r \in Requests : req[r].pc = "deliver" /\ req[r].response = NotConfiguredText

ReturnedTexts ==
    ResponseTexts \cup {NotConfiguredText} \cup {ErrorText(e) : e \in ErrorMessages}

\* C13: whatever text analyze_screenshot_sync returns (the answer, the error
\* text of a quota failure or of another remote error, the not-configured
\* text), the worker runs the delivery once, every call of it carries that
\* text, a call follows only a call that failed, and nothing was delivered for
\* the request before.
C13_ReturnedTextIsDelivered ==
    [][\A r \in Requests :
          /\ (req[r].pc = "deliver")
             => (req[r].sink = <<>> /\ req[r].response \in ReturnedTexts)
          /\ (req[r].pc = "deliver" /\ req'[r].pc # "deliver")
             => /\ req'[r].pc = "finally"
                /\ req'[r].sink # <<>>
                /\ \A i \in 1..Len(req'[r].sink) :
                      /\ req'[r].sink[i].op \in {"paste", "copy"}
                      /\ req'[r].sink[i].text = req[r].response
                /\ \A i \in 1..(Len(req'[r].sink) - 1) : ~req'[r].sink[i].ok
          /\ (req[r].pc = "finally" /\ req'[r].pc # "finally")
             => req'[r].pc = "done"]_vars

\* the error text of a non-quota error has been delivered
C13_Witness ==
    \E r \in Requests :
        /\ req[r].pc = "finally"
        /\ req[r].response = ErrorText(MsgInvalidArgument)
        /\ req[r].sink # <<>>
        /\ \A i \in 1..Len(req[r].sink) : req[r].sink[i].text = req[r].response

\* C20: with auto-paste on, the worker calls paste_text with the response and
\* calls copy_to_clipboard exactly when paste_text returned False; with
\* auto-paste off it calls copy_to_clipboard alone.
C20_DeliveryPolicy ==
    [][\A r \in Requests :
          (req[r].pc = "deliver" /\ req'[r].pc # "deliver")
          => LET sink == req'[r].sink
             IN  IF auto_paste
                 THEN /\ Len(sink) \in {1, 2}
                      /\ sink[1].op = "paste"
                      /\ (Len(sink) = 2) <=> ~sink[1].ok
                      /\ Len(sink) = 2 => sink[2].op = "copy"
                 ELSE /\ Len(sink) = 1
                      /\ sink[1].op = "copy"]_vars

\* paste_text failed and copy_to_clipboard was called after it
C20_Witness ==
    \E r \in Requests :
        /\ req[r].pc = "finally"
        /\ auto_paste
        /\ Len(req[r].sink) = 2
        /\ req[r].sink[1].op = "paste"
        /\ ~req[r].sink[1].ok
        /\ req[r].sink[2].op = "copy"

\* C14: a worker that finds k images in the queue takes exactly those images
\* in the order they were queued, does not capture a fresh one, and its clear()
\* leaves the queue empty; the images are what it passes on.
C14_QueueIsDrainedInOrder ==
    [][\A r \in Requests :
          /\ (req[r].pc = "start" /\ image_queue # <<>> /\ req'[r].pc # "start")
             => /\ req'[r].pc = "clear"
                /\ req'[r].images.kind = "list"
                /\ req'[r].images.items = image_queue
          /\ (req[r].pc = "clear" /\ req'[r].pc # "clear")
             => /\ req'[r].pc = "call"
                /\ image_queue' = <<>>
                /\ req'[r].images = req[r].images]_vars

\* two queued images were taken and the queue is empty
C14_Witness ==
    \E r \in Requests :
        /\ req[r].pc = "call"
        /\ req[r].images.kind = "list"
        /\ req[r].images.items = <<1, 2>>
        /\ image_queue = <<>>

\* C15: a worker that finds the queue empty passes on a one-element sequence
\* holding the fresh screenshot, the shape it passes on for queued images.
C15_FreshCaptureIsASequence ==
    \A r \in Requests :
        (req[r].pc = "call" /\ req[r].images.items = <<0>>)
        => req[r].images.kind = "list"

\* C16: remove_api_key(c) on a list that holds c drops one c, the first, and
\* keeps the other keys in their order, so that c is gone when it was there
\* once; on a list without c it changes nothing. Afterwards get_api_key
\* returns a key of the list, or '' when the list is empty.
C16_RemoveKeepsOrder ==
    call.op = "remove_api_key"
    => /\ IF InList(call.arg, call.keys)
          THEN /\ \E p \in 1..Len(call.keys) :
                     /\ call.keys[p] = call.arg
                     /\ \A j \in 1..(p - 1) : call.keys[j] # call.arg
                     /\ Len(api_keys) = Len(call.keys) - 1
                     /\ \A i \in 1..Len(api_keys) :
                           api_keys[i] = IF i < p THEN call.keys[i] ELSE call.keys[i + 1]
               /\ Occurrences(call.arg, call.keys) = 1 => ~InList(call.arg, api_keys)
          ELSE /\ api_keys = call.keys
               /\ current_key_index = call.index
       /\ LET got == GetApiKey(api_keys, current_key_index)
          IN  /\ IF api_keys = <<>> THEN got.ret = EmptyKey ELSE InList(got.ret, api_keys)
              /\ api_keys # <<>> => got.index < Len(api_keys)

\* a key in the middle of a list of three was removed with the cursor behind it
C16_Witness ==
    /\ call.op = "remove_api_key"
    /\ Len(call.keys) = 3
    /\ call.keys[2] = call.arg
    /\ call.keys[1] # call.arg
    /\ call.index = 2
    /\ Len(api_keys) = 2

\* C17: on a list of no key or one key rotate_to_next_key returns what
\* get_api_key returns ('' for no key), and leaves the list and the current
\* key as they were.
C17_RotateOnShortListIsNoOp ==
    [][(call'.op = "rotate_to_next_key" /\ Len(api_keys) <= 1)
       => /\ api_keys' = api_keys
          /\ call'.ret = GetApiKey(api_keys, current_key_index).ret
          /\ GetApiKey(api_keys', current_key_index').ret = call'.ret
          /\ api_keys = <<>> => call'.ret = EmptyKey
          /\ Len(api_keys) = 1 => call'.ret = api_keys[1]]_vars

\* rotate_to_next_key was called on a list of one key
C17_Witness ==
    /\ call.op = "rotate_to_next_key"
    /\ Len(api_keys) = 1
    /\ call.ret = api_keys[1]

\* C18 as stated: add_api_key(c) appends c whenever c is not in the list.
C18_AddAppendsWhenAbsent ==
    call.op = "add_api_key"
    => /\ api_keys = IF InList(call.arg, call.keys) THEN call.keys
                     ELSE Append(call.keys, call.arg)
       /\ current_key_index = call.index

\* C18, amended: add_api_key(c) appends c at the tail when c is not empty and
\* not in the list, and otherwise changes nothing; the keys already there
\* keep their order and the cursor is never changed.
C18_AddAppendsNonEmptyWhenAbsent ==
    call.op = "add_api_key"
    => /\ api_keys = IF call.arg # EmptyKey /\ ~InList(call.arg, call.keys)
                     THEN Append(call.keys, call.arg)
                     ELSE call.keys
       /\ current_key_index = call.index

\* a new key was added behind an existing one
C18_Witness ==
    /\ call.op = "add_api_key"
    /\ call.keys # <<>>
    /\ call.arg # EmptyKey
    /\ ~InList(call.arg, call.keys)
    /\ api_keys = Append(call.keys, call.arg)

PressEvents == HotkeyEvents \cup {"capture_disabled", "capture_accepted"}

\* C19: while is_enabled is false a press of the main hotkey or of the capture
\* hotkey starts no worker and no capture thread, makes no remote call, and
\* leaves the queue and is_processing as they were.
C19_PressWhileDisabledIsNoOp ==
    [][(event' \in PressEvents /\ ~is_enabled)
       => /\ event' \in {"hotkey_disabled", "capture_disabled"}
          /\ UNCHANGED <<cfgvars, settings, client_key, is_enabled, is_processing,
                         image_queue, req, capturing, n_img, tray_enabled, mw_enabled,
                         hotkey_listener, os_rejects, analysed, call>>]_vars

\* the capture hotkey was pressed while disabled, with an image queued before
C19_Witness ==
    /\ event = "capture_disabled"
    /\ ~is_enabled
    /\ image_queue # <<>>

\* C21: the listener holds at most one binding and at most one OS hook for
\* each hotkey, and a successful register of a hotkey that is bound puts the
\* new callback in place of the old one with still one hook.
C21_OneBindingOneHook ==
    /\ \A h \in Hotkeys :
          /\ hotkey_listener.hooks[h] \in {0, 1}
          /\ hotkey_listener.registered_hotkeys[h] \in Callbacks \cup {Unbound}
          /\ hotkey_listener.registered_hotkeys[h] = Unbound => hotkey_listener.hooks[h] = 0
    /\ (call.op = "register" /\ call.ok)
       => /\ hotkey_listener.registered_hotkeys[call.hotkey] = call.callback
          /\ hotkey_listener.hooks[call.hotkey] = 1
          /\ \A h \in Hotkeys \ {call.hotkey} :
                /\ hotkey_listener.registered_hotkeys[h] = call.before.registered_hotkeys[h]
                /\ hotkey_listener.hooks[h] = call.before.hooks[h]

\* a bound hotkey was registered again with another callback
C21_Witness ==
    /\ call.op = "register"
    /\ call.ok
    /\ call.before.registered_hotkeys[call.hotkey] \in Callbacks \ {call.callback}
    /\ call.before.hooks[call.hotkey] = 1

\* register got as far as keyboard.add_hotkey: the hotkey was not bound, or its
\* hook could be removed
AddAttempted ==
    \/ call.before.registered_hotkeys[call.hotkey] = Unbound
    \/ call.before.hooks[call.hotkey] > 0

\* C22: when keyboard.add_hotkey rejects a hotkey, register returns False, the
\* hotkey has no binding afterwards, and at startup the other hotkey is
\* registered all the same.
C22_RejectedHotkeyHasNoBinding ==
    /\ call = NoCall
       => \A h \in Hotkeys :
             IF h \in os_rejects
             THEN hotkey_listener.registered_hotkeys[h] = Unbound
             ELSE /\ hotkey_listener.registered_hotkeys[h] = CallbackOf(h)
                  /\ hotkey_listener.hooks[h] = 1
    /\ (call.op = "register" /\ call.hotkey \in os_rejects /\ AddAttempted)
       => /\ ~call.ok
          /\ hotkey_listener.registered_hotkeys[call.hotkey] = Unbound

\* C23: a disable() right after a disable() leaves the listener as it was,
\* disabled and without hooks, and logs no failure.
C23_DisableTwice ==
    (call.op = "disable" /\ call.prev = "disable")
    => /\ hotkey_listener = call.before
       /\ ~hotkey_listener.is_enabled
       /\ \A h \in Hotkeys : hotkey_listener.hooks[h] = 0
       /\ call.warnings = {}

\* C24: disable() removes no binding, and enable() right after disable()
\* leaves the bindings that were there before the two calls.
C24_BindingsSurviveDisableEnable ==
    /\ call.op = "disable"
       => hotkey_listener.registered_hotkeys = call.before.registered_hotkeys
    /\ (call.op = "enable" /\ call.prev = "disable")
       => hotkey_listener.registered_hotkeys = call.before.registered_hotkeys

\* C25: a worker whose fresh capture fails shows the error notification and
\* goes straight to its finally clause: no remote call, no paste or copy, no
\* second capture, and is_processing is reset. A capture thread whose capture
\* fails leaves the queue as it was.
C25_CaptureFailureIsFinal ==
    [][/\ \A r \in Requests :
             /\ (req[r].pc = "start" /\ image_queue = <<>> /\ req'[r].pc # "start")
                => \/ req'[r].pc = "call" /\ req'[r].images = FreshCapture
                   \/ /\ req'[r].pc = "finally"
                      /\ req'[r].sink = <<SinkCall("error_notification", <<>>, TRUE)>>
                      /\ req'[r].attempts = <<>>
                      /\ req'[r].response = <<>>
                      /\ req'[r].images = NoImages
                      /\ image_queue' = <<>>
             /\ (req[r].pc = "finally" /\ req'[r].pc # "finally")
                => (req'[r].pc = "done" /\ ~is_processing')
       /\ (capturing' = capturing - 1 /\ n_img' = n_img) => image_queue' = image_queue]_vars

\* a worker's fresh capture failed and the worker is about to end
C25_Witness ==
    \E r \in Requests :
        /\ req[r].pc = "finally"
        /\ req[r].sink = <<SinkCall("error_notification", <<>>, TRUE)>>
        /\ is_processing

\* C26: the configured key list never holds the same key twice.
C26_NoDuplicateKeys == Distinct(api_keys)

\* C29: the enabled flags of the application, the tray and the main window agree.
C29_EnabledFlagsAgree == is_enabled = tray_enabled /\ is_enabled = mw_enabled

\* C27: every call that changes the key list or the cursor (add_api_key,
\* remove_api_key, rotate_to_next_key, the cursor reset of get_api_key) leaves the
\* file equal to the in-memory configuration: no change stays unpersisted.
C27_ChangesArePersisted ==
    [][(api_keys' # api_keys \/ current_key_index' # current_key_index)
       => config_file' = Config']_vars

\* C27 witness: remove_api_key has removed a key and reset the cursor, two
\* writes of the file, and the file holds the configuration in memory.
C27_Witness ==
    /\ call.op = "remove_api_key"
    /\ api_keys # call.keys
    /\ current_key_index # call.index
    /\ config_file = Config

\* constructing a client has failed in no request that has yet to deliver: the
\* record of a request tells so from the failure until the delivery
NoInitFailure == \A r \in Requests : ~req[r].init_failed

\* every request started so far has returned from analyze_screenshot_sync and
\* none has delivered yet
AllReturned == \A r \in Requests : req[r].pc \in {"idle", "deliver"}

\* the client is bound to the key config.get_api_key() returns: to none when no
\* key is configured, else to the key at the cursor
ClientAtCursor ==
    IF api_keys = <<>> THEN client_key = None
    ELSE client_key = GetApiKey(api_keys, current_key_index).ret

\* C28: when no analyze request is in flight and constructing a client has
\* never failed (the key list is not edited in a run), the client is bound to
\* the key at the persisted cursor. Stated for the states in which every request
\* of the run has just returned, where the records show that nothing failed.
C28_ClientFollowsCursor ==
    (AllReturned /\ NoInitFailure /\ config_file = Config) => ClientAtCursor

\* generate_content has just answered request r: the request succeeds
Succeeds(r) ==
    /\ req[r].pc = "call"
    /\ req'[r].pc = "deliver"
    /\ req'[r].response \in {ResultText(t) : t \in ResponseTexts}

\* C30: rotation is sticky. When a request succeeds with key c, after any number
\* of rotations, the persisted cursor denotes c and the client is bound to c, the
\* key the first attempt of the next request is made with.
C30_RotationIsSticky ==
    [][\A r \in Requests :
          Succeeds(r)
          => LET c == req'[r].attempts[Len(req'[r].attempts)]
             IN  /\ GetApiKey(api_keys', current_key_index').ret = c
                 /\ config_file'.current_key_index = current_key_index'
                 /\ client_key' = c]_vars

\* a capture thread (_queue_screenshot) ends in this step
CaptureEnds == capturing' = capturing - 1

\* a press of the capture hotkey is handled in this step
CapturePressed == event' \in {"capture_accepted", "capture_disabled"}

\* C31 as stated: every capture-only action taken while enabled appends exactly
\* one image at the tail of the queue and leaves is_processing alone, and it is
\* refused only when the assistant is disabled.
C31_CaptureAppendsOne ==
    [][/\ CaptureEnds
          => /\ Len(image_queue') = Len(image_queue) + 1
             /\ SubSeq(image_queue', 1, Len(image_queue)) = image_queue
             /\ is_processing' = is_processing
       /\ CapturePressed
          => /\ is_processing' = is_processing
             /\ event' = "capture_disabled" <=> ~is_enabled]_vars

\* C31 amended: a capture-only action taken while enabled is accepted whatever
\* is_processing is; its thread appends exactly one new image at the tail when
\* the capture returns and leaves the queue as it was when the capture raises;
\* neither the press nor the thread changes is_processing.
C31_CaptureAppendsOneUnlessItFails ==
    [][/\ CaptureEnds
          => /\ \/ /\ Len(image_queue') = Len(image_queue) + 1
                   /\ SubSeq(image_queue', 1, Len(image_queue)) = image_queue
                   /\ image_queue'[Len(image_queue')] = n_img'
                   /\ n_img' = n_img + 1
                \/ /\ image_queue' = image_queue
                   /\ n_img' = n_img
             /\ is_processing' = is_processing
       /\ CapturePressed
          => /\ is_processing' = is_processing
             /\ UNCHANGED image_queue
             /\ event' = "capture_disabled" <=> ~is_enabled
             /\ event' = "capture_accepted" => capturing' = capturing + 1]_vars

\* C31 witness: an image was appended behind another one while an analyze
\* request is in flight and is_processing is set.
C31_Witness ==
    /\ Len(image_queue) = 2
    /\ is_enabled
    /\ is_processing
    /\ \E r \in Requests : InFlight(r)

\* C32: after any sequence of toggles that follows a successful startup, every
\* OS registration succeeding, the hooks are active exactly when is_enabled is
\* true: no hotkey has a hook while disabled, every registered hotkey has exactly
\* one while enabled, and both hotkeys stay registered.
C32_HooksFollowEnabled ==
    \A h \in Hotkeys :
        /\ hotkey_listener.registered_hotkeys[h] = CallbackOf(h)
        /\ hotkey_listener.hooks[h] = IF is_enabled THEN 1 ELSE 0

\* C32 witness: disabled from the tray and enabled again from the main window
\* (the tray's own flag is left behind): enable() has registered every hotkey
\* again and each has its one hook.
C32_Witness ==
    /\ is_enabled
    /\ ~tray_enabled
    /\ hotkey_listener.is_enabled
    /\ \A h \in Hotkeys : /\ hotkey_listener.registered_hotkeys[h] = CallbackOf(h)
                           /\ hotkey_listener.hooks[h] = 1
====
